---- MODULE Spec2Model ----
(***************************************************************************)
(* Model of src/fancy_todo.py: the SQLite task table, the connection       *)
(* context manager get_db, and the QStandardItemModel/QTreeView the main   *)
(* window keeps in step with the table (load, add, delete, toggle, drag    *)
(* move, search filter).                                                   *)
(*                                                                         *)
(* Text is a sequence of one-character strings, a date is a day number,    *)
(* SQL NULL / Python None is NULL.                                         *)
(***************************************************************************)
EXTENDS Integers, Sequences, FiniteSets, TLC

VARIABLES
    tasks,    \* the tasks table: id -> row
    seq,      \* sqlite_sequence of the AUTOINCREMENT key: largest id ever given
    open,     \* connections opened by get_db and never closed
    model,    \* the item model: kids (item, 0 the invisible root -> its child
              \* items), db_row (TaskItem.db_row) and fg (foreground colour)
    hidden,   \* rows the tree view hides
    query,    \* text of the search bar
    today     \* date.today()

vars == <<tasks, seq, open, model, hidden, query, today>>

\* ---------------------------------------------------------------- bounds

MaxId == 3
MaxLeak == 1
MaxDay == 2

NULL == 0

\* What the user can type into TaskDialog: title, due, tags.
Dialogs ==
    { [title |-> <<" ", "A", "b">>, due |-> 1,    tags |-> <<"x", " ">>],
      [title |-> <<"c">>,           due |-> NULL, tags |-> <<>>],
      [title |-> <<" ">>,           due |-> 1,    tags |-> <<>>] }

\* What the user can type into the search bar.
Queries == { <<>>, <<" ">>, <<"a", " ">>, <<"B">> }

\* ------------------------------------------------------------------ text

Range(s) == { s[i] : i \in DOMAIN s }

LowerChar(c) ==
    CASE c = "A" -> "a"
      [] c = "B" -> "b"
      [] c = "C" -> "c"
      [] c = "X" -> "x"
      [] OTHER -> c

\* str.lower()
Lower(s) == [i \in DOMAIN s |-> LowerChar(s[i])]

RECURSIVE LStrip(_)
LStrip(s) == IF s # <<>> /\ Head(s) = " " THEN LStrip(Tail(s)) ELSE s

RECURSIVE RStrip(_)
RStrip(s) ==
    IF s # <<>> /\ s[Len(s)] = " " THEN RStrip(SubSeq(s, 1, Len(s) - 1)) ELSE s

\* str.strip()
Strip(s) == RStrip(LStrip(s))

\* Python's `a in b` on strings
Contains(a, b) ==
    \E i \in 0..(Len(b) - Len(a)) : SubSeq(b, i + 1, i + Len(a)) = a

\* ------------------------------------------------------- persistence layer

\* get_db: the connection is committed and closed by the code after the
\* yield, which runs only when the with-body did not raise.
GetDb(ok) ==
    /\ IF ok THEN TRUE ELSE open < MaxLeak
    /\ open' = IF ok THEN open ELSE open + 1

\* NewId as a key without AUTOINCREMENT gives it: one past the largest id the
\* table holds now.
NewIdMaxRowid ==
    IF DOMAIN tasks = {} THEN 1
    ELSE (CHOOSE m \in DOMAIN tasks : \A r \in DOMAIN tasks : r <= m) + 1

\* The id an INSERT gets under INTEGER PRIMARY KEY AUTOINCREMENT.
NewId == seq + 1

\* INSERT INTO tasks (parent_id, title, due, tags, created_at, updated_at):
\* done and ordering take the column defaults.
InsertRow(t, id, parent, data) ==
    (id :> [id |-> id, parent_id |-> parent, title |-> data.title, done |-> 0,
            due |-> data.due, tags |-> data.tags, ordering |-> 0]) @@ t

\* DELETE FROM tasks WHERE id=?  on a connection that never switches
\* foreign-key enforcement on: the row alone goes.
DeleteRow(t, id) == [r \in DOMAIN t \ {id} |-> t[r]]

\* UPDATE tasks SET done=?, updated_at=? WHERE id=?
UpdateDone(t, id, new_done) ==
    [r \in DOMAIN t |-> IF r = id THEN [t[r] EXCEPT !.done = new_done] ELSE t[r]]

\* ORDER BY parent_id NULLS FIRST, ordering
KeyLeq(t, a, b) ==
    \/ t[a].parent_id < t[b].parent_id
    \/ t[a].parent_id = t[b].parent_id /\ t[a].ordering <= t[b].ordering

\* SELECT * FROM tasks ORDER BY ...: every order of the ids that the sort keys
\* allow (rows with equal keys come in an order SQL leaves open).
SortedRows(t) ==
    { s \in [1..Cardinality(DOMAIN t) -> DOMAIN t] :
        /\ \A i, j \in DOMAIN s : i # j => s[i] # s[j]
        /\ \A i, j \in DOMAIN s : i < j => KeyLeq(t, s[i], s[j]) }

\* ------------------------------------------------------------ item model

\* The items below item n.
RECURSIVE Desc(_, _)
Desc(k, n) ==
    UNION { {c} \cup Desc(k, c) : c \in Range(k[n]) }

\* The items of the model (all but the invisible root).
Items(k) == Desc(k, 0)

\* The item whose child n is.
ParentOf(k, n) == CHOOSE p \in DOMAIN k : n \in Range(k[p])

\* The items above item n (the invisible root left out).
Anc(k, n) == { a \in Items(k) : n \in Desc(k, a) }

\* Overdue with the comparison taken as "not after today".
OverdueInclusive(row, day) == row.due # NULL /\ row.done = 0 /\ row.due <= day

\* load_tasks, "Overdue highlight" test
Overdue(row, day) == row.due # NULL /\ row.done = 0 /\ row.due < day

\* load_tasks: red when overdue, then gray when done
Colour(row, day) ==
    IF row.done # 0 THEN "gray"
    ELSE IF Overdue(row, day) THEN "red" ELSE "default"

\* LoadStep with the top-level append run for every row, not only in the
\* else branch.
LoadStepAlsoTop(acc, row, day) ==
    LET id == row.id
        parent == row.parent_id
        k == IF parent # NULL /\ parent \in DOMAIN acc.db_row
             THEN [acc.kids EXCEPT ![parent] = Append(@, id), ![0] = Append(@, id)]
             ELSE [acc.kids EXCEPT ![0] = Append(@, id)]
    IN  [kids   |-> (id :> <<>>) @@ k,
         db_row |-> (id :> row) @@ acc.db_row,
         fg     |-> (id :> Colour(row, day)) @@ acc.fg]

\* load_tasks, one turn of `for row in rows`: acc.kids has the invisible root
\* and every item of item_map.
LoadStep(acc, row, day) ==
    LET id == row.id
        parent == row.parent_id
        k == IF parent # NULL
             THEN IF parent \in DOMAIN acc.db_row
                  THEN [acc.kids EXCEPT ![parent] = Append(@, id)]
                  ELSE acc.kids
             ELSE [acc.kids EXCEPT ![0] = Append(@, id)]
    IN  [kids   |-> (id :> <<>>) @@ k,
         db_row |-> (id :> row) @@ acc.db_row,
         fg     |-> (id :> Colour(row, day)) @@ acc.fg]

RECURSIVE LoadRows(_, _, _, _)
LoadRows(t, rows, day, acc) ==
    IF rows = <<>> THEN acc
    ELSE LoadRows(t, Tail(rows), day, LoadStep(acc, t[Head(rows)], day))

EmptyModel == [kids |-> (0 :> <<>>), db_row |-> <<>>, fg |-> <<>>]

\* What the item model holds after load_tasks read `rows`: the items
\* appended below the invisible root; an item appended nowhere is dropped
\* with item_map.
LoadTasks(t, rows, day) ==
    LET all == LoadRows(t, rows, day, EmptyModel)
        in == Items(all.kids)
    IN  [kids   |-> [n \in {0} \cup in |-> all.kids[n]],
         db_row |-> [n \in in |-> all.db_row[n]],
         fg     |-> [n \in in |-> all.fg[n]]]

\* FilterRecursive with the title compared as it is written, not lowered.
RECURSIVE FilterRecursiveCased(_, _, _, _)
FilterRecursiveCased(k, rowOf, itm, text) ==
    LET child_match == \E i \in DOMAIN k[itm] :
                           FilterRecursiveCased(k, rowOf, k[itm][i], text)
        is_match == Contains(text, rowOf[itm].title)
    IN  is_match \/ child_match \/ text = <<>>

\* _filter_recursive: "Returns True if item or any child matches."
RECURSIVE FilterRecursive(_, _, _, _)
FilterRecursive(k, rowOf, itm, text) ==
    LET child_match == \E i \in DOMAIN k[itm] :
                           FilterRecursive(k, rowOf, k[itm][i], text)
        is_match == Contains(text, Lower(rowOf[itm].title))
    IN  is_match \/ child_match \/ text = <<>>

\* _filter_tasks: the rows setRowHidden leaves hidden.
FilterTasks(k, rowOf, q) ==
    LET text == Strip(Lower(q))
    IN  { n \in Items(k) : ~FilterRecursive(k, rowOf, n, text) }

\* TaskDialog.get_data
GetData(d) == [title |-> Strip(d.title), due |-> d.due, tags |-> Strip(d.tags)]

\* QStandardItemModel.removeRow: the item goes with everything below it.
RemoveRow(k, n) ==
    LET gone == {n} \cup Desc(k, n)
    IN  [p \in DOMAIN k \ gone |-> SelectSeq(k[p], LAMBDA c : c # n)]

\* s with x put in at place i
InsertAt(s, i, x) == SubSeq(s, 1, i - 1) \o <<x>> \o SubSeq(s, i, Len(s))

\* ---------------------------------------------------------------- state

Init ==
    /\ tasks = <<>>
    /\ seq = 0
    /\ open = 0
    /\ model = EmptyModel
    /\ hidden = {}
    /\ query = <<>>
    /\ today = 1

\* main: a new process, init_db, then MainWindow() with its load_tasks.
Main ==
    /\ \E rows \in SortedRows(tasks) : model' = LoadTasks(tasks, rows, today)
    /\ open' = 0
    /\ hidden' = {}
    /\ query' = <<>>
    /\ UNCHANGED <<tasks, seq, today>>

\* add_task, the dialog accepted with a title; sel is the selected item
\* (0: none), ok whether the INSERT ran without raising.
AddTask(sel, d, ok) ==
    LET data == GetData(d)
        new_id == NewId
        row == [id |-> new_id, parent_id |-> sel, title |-> data.title,
                done |-> 0, due |-> data.due, tags |-> data.tags, ordering |-> 0]
    IN  /\ data.title # <<>>
        /\ seq < MaxId
        /\ GetDb(ok)
        /\ IF ok
           THEN /\ tasks' = InsertRow(tasks, new_id, sel, data)
                /\ seq' = IF new_id > seq THEN new_id ELSE seq
                /\ model' =
                     [kids   |-> (new_id :> <<>>)
                                 @@ [model.kids EXCEPT ![sel] = Append(@, new_id)],
                      db_row |-> (new_id :> row) @@ model.db_row,
                      fg     |-> (new_id :> "default") @@ model.fg]
           ELSE UNCHANGED <<tasks, seq, model>>
        /\ UNCHANGED <<hidden, query, today>>

\* add_task left early: the dialog cancelled, or the title empty.
AddTaskNothing(d, accepted) ==
    /\ IF accepted THEN GetData(d).title = <<>> ELSE TRUE
    /\ UNCHANGED vars

\* delete_task on the selected item, answered Yes.
DeleteTask(sel, ok) ==
    /\ GetDb(ok)
    /\ IF ok
       THEN LET k == RemoveRow(model.kids, sel)
            IN  /\ tasks' = DeleteRow(tasks, model.db_row[sel].id)
                /\ model' = [kids   |-> k,
                             db_row |-> [n \in Items(k) |-> model.db_row[n]],
                             fg     |-> [n \in Items(k) |-> model.fg[n]]]
                /\ hidden' = hidden \cap Items(k)
       ELSE UNCHANGED <<tasks, model, hidden>>
    /\ UNCHANGED <<seq, query, today>>

\* delete_task with nothing selected, or answered No.
DeleteTaskNothing == UNCHANGED vars

\* TaskItem.toggle_done, the statement it sends
ToggleDone(t, itm) ==
    LET new_done == IF itm.done # 0 THEN 0 ELSE 1
    IN  UpdateDone(t, itm.id, new_done)

\* _on_item_changed for the checkbox of item n: toggle_done, then load_tasks.
\* ok1: the UPDATE ran; ok2: the SELECT of load_tasks ran (the model is
\* emptied before it).
OnItemChanged(n, ok1, ok2) ==
    /\ ~(~ok1 /\ ~ok2)
    /\ GetDb(ok1 /\ ok2)
    /\ IF ~ok1
       THEN UNCHANGED <<tasks, model, hidden>>
       ELSE /\ tasks' = ToggleDone(tasks, model.db_row[n])
            /\ hidden' = {}
            /\ IF ok2
               THEN \E rows \in SortedRows(tasks') :
                       model' = LoadTasks(tasks', rows, today)
               ELSE model' = EmptyModel
    /\ UNCHANGED <<seq, query, today>>

\* Move with a handler that writes the drop target into parent_id before the
\* view has refused or taken the drop.
MoveWritten(n, p, i) ==
    /\ tasks' = [tasks EXCEPT ![n].parent_id = p]
    /\ IF p \in {n} \cup Desc(model.kids, n)
       THEN i = 1 /\ UNCHANGED <<model, hidden>>
       ELSE LET from == ParentOf(model.kids, n)
                k1 == [model.kids EXCEPT ![from] = SelectSeq(@, LAMBDA c : c # n)]
            IN  /\ i \in 1..(Len(k1[p]) + 1)
                /\ model' = [model EXCEPT !.kids = [k1 EXCEPT ![p] = InsertAt(@, i, n)]]
                /\ hidden' = hidden \ ({n} \cup Desc(model.kids, n))
    /\ UNCHANGED <<seq, open, query, today>>

\* A drag and drop inside the tree (QTreeView.InternalMove): item n, with all
\* below it, goes under p (0: top level) at place i.  The view refuses a drop
\* of an item onto itself or below itself.  No handler of the window hears of
\* it, and no statement is sent; the item is taken to keep its TaskItem data.
Move(n, p, i) ==
    /\ p \notin {n} \cup Desc(model.kids, n)
    /\ LET from == ParentOf(model.kids, n)
           k1 == [model.kids EXCEPT ![from] = SelectSeq(@, LAMBDA c : c # n)]
       IN  /\ i \in 1..(Len(k1[p]) + 1)
           /\ model' = [model EXCEPT !.kids = [k1 EXCEPT ![p] = InsertAt(@, i, n)]]
    /\ hidden' = hidden \ ({n} \cup Desc(model.kids, n))
    /\ UNCHANGED <<tasks, seq, open, query, today>>

\* search_bar.textChanged -> _filter_tasks
Filter(q) ==
    /\ query' = q
    /\ hidden' = FilterTasks(model.kids, model.db_row, q)
    /\ UNCHANGED <<tasks, seq, open, model, today>>

\* Midnight passes: date.today() moves on.
NextDay ==
    /\ today < MaxDay
    /\ today' = today + 1
    /\ UNCHANGED <<tasks, seq, open, model, hidden, query>>

\* Every handler, every statement running without raising.
Next ==
    \/ Main
    \/ \E sel \in {0} \cup Items(model.kids), d \in Dialogs : AddTask(sel, d, TRUE)
    \/ \E d \in Dialogs, accepted \in BOOLEAN : AddTaskNothing(d, accepted)
    \/ \E sel \in Items(model.kids) : DeleteTask(sel, TRUE)
    \/ DeleteTaskNothing
    \/ \E n \in Items(model.kids) : OnItemChanged(n, TRUE, TRUE)
    \/ \E n \in Items(model.kids), p \in {0} \cup Items(model.kids), i \in 1..MaxId : Move(n, p, i)
    \/ NextDay

Spec == Init /\ [][Next]_vars

\* The tree of TaskItems under the search bar: it is built, cut and filtered.
NextFilter ==
    \/ Main
    \/ \E sel \in {0} \cup Items(model.kids), d \in Dialogs : AddTask(sel, d, TRUE)
    \/ \E sel \in Items(model.kids) : DeleteTask(sel, TRUE)
    \/ \E q \in Queries : Filter(q)

SpecFilter == Init /\ [][NextFilter]_vars

\* The handlers that open the database, a statement of theirs raising or not.
NextDb ==
    \/ Main
    \/ \E sel \in {0} \cup Items(model.kids), d \in Dialogs, ok \in BOOLEAN : AddTask(sel, d, ok)
    \/ \E sel \in Items(model.kids), ok \in BOOLEAN : DeleteTask(sel, ok)
    \/ \E n \in Items(model.kids), ok1, ok2 \in BOOLEAN : OnItemChanged(n, ok1, ok2)

SpecDb == Init /\ [][NextDb]_vars

\* ---------------------------------------------------------------- claims

\* The ids met by following parent_id from row r of table t, in at most n steps.
RECURSIVE ParentChain(_, _, _)
ParentChain(t, r, n) ==
    IF n = 0 \/ r \notin DOMAIN t \/ t[r].parent_id = NULL THEN {}
    ELSE {t[r].parent_id} \cup ParentChain(t, t[r].parent_id, n - 1)

\* The rows of table t whose parent_id names no row of t.
Orphans(t) ==
    { r \in DOMAIN t : t[r].parent_id # NULL /\ t[r].parent_id \notin DOMAIN t }

\* C1: after delete_task on a task, the table holds neither the task nor any
\* row whose parent chain leads to it.
C1_CascadeDelete ==
    [][\A sel \in Items(model.kids) :
          DeleteTask(sel, TRUE) =>
             \A r \in DOMAIN tasks' :
                 r # sel /\ sel \notin ParentChain(tasks', r, MaxId + 1)]_vars

\* C2: an accepted add_task with a title leaves the table as it was plus one
\* row that carries the selected parent and the dialog's title, due and tags
\* (as get_data returns them), done false, under an id greater than every id
\* given before.
C2_AddTask ==
    [][\A sel \in {0} \cup Items(model.kids), d \in Dialogs :
          AddTask(sel, d, TRUE) =>
             \E id \in DOMAIN tasks' \ DOMAIN tasks :
                 /\ DOMAIN tasks' = DOMAIN tasks \cup {id}
                 /\ \A r \in DOMAIN tasks : tasks'[r] = tasks[r]
                 /\ tasks'[id].id = id
                 /\ tasks'[id].parent_id = sel
                 /\ tasks'[id].title = Strip(d.title)
                 /\ tasks'[id].due = d.due
                 /\ tasks'[id].tags = Strip(d.tags)
                 /\ tasks'[id].done = 0
                 /\ id > seq
                 /\ \A r \in DOMAIN tasks : id > r]_vars

\* C2, reached: id 2 was given and deleted, and the next task, added under
\* task 1, got id 3.
C2_Witness ==
    /\ seq = 3
    /\ DOMAIN tasks = {1, 3}
    /\ tasks[3].parent_id = 1
    /\ tasks[3].title = <<"A", "b">>
    /\ tasks[3].tags = <<"x">>
    /\ tasks[3].done = 0

\* C3 as claimed: after filter(q) the empty query hides nothing, an item is
\* visible iff its title or a title below it contains q whatever the case, and
\* every item above a visible item is visible.
C3_FilterAsClaimed ==
    [][\A q \in Queries :
          Filter(q) =>
             /\ q = <<>> => hidden' = {}
             /\ \A n \in Items(model.kids) :
                   n \notin hidden' <=>
                      \E m \in {n} \cup Desc(model.kids, n) :
                          Contains(Lower(q), Lower(model.db_row[m].title))
             /\ \A n \in Items(model.kids) \ hidden' :
                   Anc(model.kids, n) \cap hidden' = {}]_vars

\* C3 as amended: the same, for q with the white space at its ends removed.
C3_FilterTrimmed ==
    [][\A q \in Queries :
          Filter(q) =>
             /\ q = <<>> => hidden' = {}
             /\ \A n \in Items(model.kids) :
                   n \notin hidden' <=>
                      \E m \in {n} \cup Desc(model.kids, n) :
                          Contains(Strip(Lower(q)), Lower(model.db_row[m].title))
             /\ \A n \in Items(model.kids) \ hidden' :
                   Anc(model.kids, n) \cap hidden' = {}]_vars

\* C3, reached: the search bar holds "a ", an item titled "c" is hidden, and
\* another titled "c" is shown for the "Ab" below it.
C3_Witness ==
    /\ query = <<"a", " ">>
    /\ hidden = FilterTasks(model.kids, model.db_row, query)
    /\ \E h \in hidden : model.db_row[h].title = <<"c">>
    /\ \E n \in Items(model.kids) \ hidden :
          /\ model.db_row[n].title = <<"c">>
          /\ \E m \in Desc(model.kids, n) : model.db_row[m].title = <<"A", "b">>

\* C4: whatever order the SELECT gives, the top-level items load_tasks builds
\* are the rows with a NULL parent_id, each once.
C4_RootsAreNullParent ==
    \A rows \in SortedRows(tasks) :
        LET top == LoadTasks(tasks, rows, today).kids[0]
        IN  /\ Range(top) = { r \in DOMAIN tasks : tasks[r].parent_id = NULL }
            /\ Len(top) = Cardinality(Range(top))

\* C4, reached: the tree is the one load_tasks builds from a table that
\* holds an orphan and a top-level row a toggle marked done.
C4_Witness ==
    /\ Orphans(tasks) # {}
    /\ \E r \in DOMAIN tasks : tasks[r].parent_id = NULL /\ tasks[r].done = 1
    /\ \E rows \in SortedRows(tasks) : model = LoadTasks(tasks, rows, today)
    /\ Items(model.kids) # {}

\* C5: no two rows with the same parent_id have the same ordering.
C5_SiblingOrderingUnique ==
    \A a, b \in DOMAIN tasks :
        a # b /\ tasks[a].parent_id = tasks[b].parent_id
            => tasks[a].ordering # tasks[b].ordering

\* C6: after a move the row carries the new parent_id, and a rebuild from the
\* table shows the tree as the move left it.
C6_MovePersisted ==
    [][\A n \in Items(model.kids), p \in {0} \cup Items(model.kids), i \in 1..MaxId :
          Move(n, p, i) =>
             /\ tasks'[n].parent_id = p
             /\ \A rows \in SortedRows(tasks') :
                   LoadTasks(tasks', rows, today').kids = model'.kids]_vars

\* C7: following parent_id from a row never comes back to that row.
C7_Acyclic ==
    \A r \in DOMAIN tasks : r \notin ParentChain(tasks, r, MaxId + 1)

\* C7, reached: row 3 is under row 2 under row 1 in the table, while a drag
\* has put item 1 below item 3 in the tree.
C7_Witness ==
    /\ DOMAIN tasks = {1, 2, 3}
    /\ tasks[3].parent_id = 2
    /\ tasks[2].parent_id = 1
    /\ 1 \in Desc(model.kids, 3)

\* C8: once an operation is over, no connection it opened is open.
C8_ConnectionsClosed == open = 0

\* C9: in the tree rebuilt from the table an item is red iff its due is set,
\* it is not done and its due is before today; a toggle flips done of that one
\* row and leaves the tree so rebuilt.
C9_OverdueAfterToggle ==
    /\ [](\A rows \in SortedRows(tasks) :
             LET rebuilt == LoadTasks(tasks, rows, today)
             IN  \A r \in Items(rebuilt.kids) :
                     rebuilt.fg[r] = "red" <=>
                        /\ tasks[r].due # NULL
                        /\ tasks[r].done = 0
                        /\ tasks[r].due < today)
    /\ [][\A n \in Items(model.kids) :
             OnItemChanged(n, TRUE, TRUE) =>
                /\ DOMAIN tasks' = DOMAIN tasks
                /\ \A r \in DOMAIN tasks :
                      tasks'[r] = IF r = n
                                  THEN [tasks[r] EXCEPT !.done = 1 - tasks[r].done]
                                  ELSE tasks[r]
                /\ \E rows \in SortedRows(tasks') :
                      model' = LoadTasks(tasks', rows, today')]_vars

\* C9, reached: the rebuilt tree shows a task with a past due date in red
\* beside a task that a toggle marked done, in gray.
C9_Witness ==
    /\ \E n \in Items(model.kids) :
          /\ tasks[n].due # NULL /\ tasks[n].due < today /\ tasks[n].done = 0
          /\ model.fg[n] = "red"
    /\ \E m \in Items(model.kids) :
          /\ tasks[m].due # NULL /\ tasks[m].due < today /\ tasks[m].done = 1
          /\ model.fg[m] = "gray"

\* C10: whatever order the SELECT gives, load_tasks shows every orphan as a
\* top-level item.
C10_OrphanShownAsRoot ==
    \A rows \in SortedRows(tasks) :
        Orphans(tasks) \subseteq Range(LoadTasks(tasks, rows, today).kids[0])

====
